---- MODULE Spec2Model ----
(***************************************************************************)
(* Image lifecycle of the news application: the Flask handlers             *)
(* create_news, edit_news and delete_news (src/app/app.py), their helpers  *)
(* around the Object Store and the Delete Queue, and the queue consumer    *)
(* (src/cloud_function/index.py).                                          *)
(*                                                                         *)
(* Strings that the code takes apart (stored references, file names,       *)
(* storage keys) are sequences of one-character strings.  Python's None is *)
(* the one-element sequence None, which no string of the model equals.     *)
(***************************************************************************)
EXTENDS Integers, Sequences, FiniteSets, TLC

\* ------------------------------------------------------------------ bounds

\* Requests (create, edit, delete) begun in one behaviour.
MaxRequests == 2
\* Longest stored reference given to the helper functions on their own.
MaxLen == 3
\* Messages the queue trigger hands to one invocation of the consumer.
MaxBatch == 2

\* ------------------------------------------------------------- vocabulary

None == <<"None">>
Procs == {"w1", "w2"}
Users == {"u1", "u2"}
NoUser == "anonymous"
NoFile == <<>>
Chars == {"/", "a", "_"}
Digits == <<"1", "2", "3", "4", "5", "6", "7", "8", "9">>

\* Config.YANDEX_ENDPOINT_URL and Config.YANDEX_BUCKET_NAME, shortened:
\* the endpoint keeps the "//" of its scheme.
YANDEX_ENDPOINT_URL == <<"h", "/", "/", "s">>
YANDEX_BUCKET_NAME == <<"b">>

RECURSIVE StringsOfLen(_)
StringsOfLen(n) ==
    IF n = 0 THEN {<<>>}
    ELSE {Append(s, c) : s \in StringsOfLen(n - 1), c \in Chars}

\* Every string of at most MaxLen characters, and None.
Refs == {None} \cup UNION {StringsOfLen(n) : n \in 0..MaxLen}

\* Python truthiness of an optional string.
Truthy(s) == s # None /\ s # <<>>

\* ----------------------------------------------------------- pure helpers

\* str.split(sep): the segments between the separators, empty ones kept.
RECURSIVE SplitFrom(_, _, _)
SplitFrom(s, sep, cur) ==
    IF s = <<>> THEN <<cur>>
    ELSE IF Head(s) = sep THEN <<cur>> \o SplitFrom(Tail(s), sep, <<>>)
    ELSE SplitFrom(Tail(s), sep, Append(cur, Head(s)))

split(s, sep) == SplitFrom(s, sep, <<>>)

extract_filename_from_url(url) ==
    IF ~Truthy(url) THEN None
    ELSE split(url, "/")[Len(split(url, "/"))]

\* werkzeug's secure_filename on the model's alphabet: path separators become
\* blanks, the blank-separated words are joined with "_".
RECURSIVE JoinWords(_)
JoinWords(ws) ==
    IF ws = <<>> THEN <<>>
    ELSE IF Head(ws) = <<>> THEN JoinWords(Tail(ws))
    ELSE IF JoinWords(Tail(ws)) = <<>> THEN Head(ws)
    ELSE Head(ws) \o <<"_">> \o JoinWords(Tail(ws))

secure_filename(name) == JoinWords(split(name, "/"))

\* uuid.uuid4(): the n-th identifier drawn, distinct from every other.
uuid4(n) == <<Digits[n]>>

\* --------------------------------------------- wrappers of external services

\* How an external call ends: it succeeds, the service answers with an error
\* (botocore's ClientError), or anything else is raised (a connection error,
\* a timeout).
Outcomes == {"ok", "ClientError", "Exception"}

\* upload_image_to_storage: ret is the public URL or None, put the key written
\* to the Object Store (None: nothing written), raised whether an exception
\* leaves the function.
upload_image_to_storage(image_file, n, outcome) ==
    LET unique_filename == uuid4(n) \o <<"_">> \o secure_filename(image_file)
    IN  IF ~Truthy(image_file)
        THEN [ret |-> None, put |-> None, raised |-> FALSE]
        ELSE IF outcome = "ok"
        THEN [ret |-> YANDEX_ENDPOINT_URL \o <<"/">> \o YANDEX_BUCKET_NAME
                        \o <<"/">> \o unique_filename,
              put |-> unique_filename, raised |-> FALSE]
        ELSE IF outcome = "ClientError"
        THEN [ret |-> None, put |-> None, raised |-> FALSE]
        ELSE [ret |-> None, put |-> None, raised |-> TRUE]

\* (Faulty variant of delete_image_from_storage: no "if not filename" check.)
delete_image_from_storage_unchecked(image_url, outcome) ==
    LET filename == extract_filename_from_url(image_url)
    IN  IF ~Truthy(image_url)
        THEN [ret |-> "False", call |-> None, deleted |-> FALSE]
        ELSE IF outcome = "ok"
        THEN [ret |-> "True", call |-> filename, deleted |-> TRUE]
        ELSE IF outcome = "ClientError"
        THEN [ret |-> "False", call |-> filename, deleted |-> FALSE]
        ELSE [ret |-> "raise", call |-> filename, deleted |-> FALSE]

\* delete_image_from_storage of the application: ret is "True", "False" or
\* "raise" (an exception leaves the function), call the Key given to
\* s3.delete_object (None: no call), deleted whether the store removed it.
delete_image_from_storage(image_url, outcome) ==
    LET filename == extract_filename_from_url(image_url)
    IN  IF ~Truthy(image_url)
        THEN [ret |-> "False", call |-> None, deleted |-> FALSE]
        ELSE IF ~Truthy(filename)
        THEN [ret |-> "False", call |-> None, deleted |-> FALSE]
        ELSE IF outcome = "ok"
        THEN [ret |-> "True", call |-> filename, deleted |-> TRUE]
        ELSE IF outcome = "ClientError"
        THEN [ret |-> "False", call |-> filename, deleted |-> FALSE]
        ELSE [ret |-> "raise", call |-> filename, deleted |-> FALSE]

\* send_delete_message: ret is "True" or "False", call the MessageBody given to
\* sqs.send_message (None: no call), sent whether the queue took the message.
\* Every exception is caught.
send_delete_message(image_url, queue_url, outcome) ==
    LET filename == extract_filename_from_url(image_url)
    IN  IF queue_url = ""
        THEN [ret |-> "False", call |-> None, sent |-> FALSE]
        ELSE IF ~Truthy(filename)
        THEN [ret |-> "False", call |-> None, sent |-> FALSE]
        ELSE IF outcome = "ok"
        THEN [ret |-> "True", call |-> filename, sent |-> TRUE]
        ELSE [ret |-> "False", call |-> filename, sent |-> FALSE]

\* ------------------------------------------------------------------ state

VARIABLES
    posts,         \* Post Store: committed News rows, id -> row
    nextId,        \* next autoincrement id of the News table
    store,         \* Object Store: keys of the blobs it holds
    queue,         \* Delete Queue: message bodies, oldest first
    queue_url,     \* app.config['YANDEX_SQS_QUEUE_URL'] ("" when not configured)
    session,       \* per client: session['user_id'], or NoUser
    pc,            \* per client: where its request in progress stands
    req,           \* per client: the locals of its request
    log,           \* per client: the calls its current request has made
    uploaded,      \* every key an upload has written
    deleteIssued,  \* every key given to s3.delete_object or sqs.send_message
    allOk,         \* no external call of the application has failed so far
    overlap,       \* two requests on the same Post were in progress together
    nreq,          \* requests begun
    status,        \* statusCode of the consumer's last invocation (0: none)
    ref,           \* the reference given to a helper called on its own
    out            \* what that helper did

vars == <<posts, nextId, store, queue, queue_url, session, pc, req, log,
          uploaded, deleteIssued, allOk, overlap, nreq, status, ref, out>>

appVars == <<posts, nextId, store, queue, queue_url, session, pc, req, log,
             uploaded, deleteIssued, allOk, overlap, nreq, status>>

Ev(op, arg, ret) == [op |-> op, arg |-> arg, ret |-> ret]

Titles == {"", "t1"}
Contents == {"", "c1"}
\* request.files['image']: no file, or a file under this name.
Files == {NoFile, <<"/", "a">>}

NoNews == [title |-> "", content |-> "", user_id |-> NoUser, image_url |-> None]

NoReq == [kind |-> "none", news_id |-> 0, news |-> NoNews, orig |-> NoNews,
          image |-> NoFile, old_image_url |-> None, new_image_url |-> None,
          image_url |-> None, result |-> "none"]

NoOut == [fn |-> "none", key |-> None, ret |-> "", call |-> None]

\* The blob of the Post the database holds at the start.
Key0 == <<"0", "_", "a">>
Url0 == YANDEX_ENDPOINT_URL \o <<"/">> \o YANDEX_BUCKET_NAME \o <<"/">> \o Key0

Init ==
    /\ \E img \in {None, Url0} :
          /\ posts = (1 :> [title |-> "t0", content |-> "c0", user_id |-> "u1",
                            image_url |-> img])
          /\ store = IF img = None THEN {} ELSE {Key0}
    /\ nextId = 2
    /\ queue = <<>>
    /\ queue_url \in {"", "q"}
    /\ session \in [Procs -> Users \cup {NoUser}]
    /\ pc = [p \in Procs |-> "done"]
    /\ req = [p \in Procs |-> NoReq]
    /\ log = [p \in Procs |-> <<>>]
    /\ uploaded = {}
    /\ deleteIssued = {}
    /\ allOk = TRUE
    /\ overlap = FALSE
    /\ nreq = 0
    /\ status = 0
    /\ ref = None
    /\ out = NoOut

\* ---------------------------------------------------------------- helpers

\* The request of client p ends with result r: its locals are dropped, what it
\* was about and what it returned are kept until its next request.
Ended(p, r) ==
    [NoReq EXCEPT !.kind = req[p].kind, !.news_id = req[p].news_id,
                  !.old_image_url = req[p].old_image_url,
                  !.new_image_url = req[p].new_image_url,
                  !.image_url = req[p].image_url, !.result = r]

\* Another client is in the middle of an edit or delete of Post id.
Busy(p, id) ==
    \E q \in Procs \ {p} :
        pc[q] # "done" /\ req[q].kind \in {"edit", "delete"} /\ req[q].news_id = id

\* before_request: g.user from the session.
g_user(p) == session[p]

\* ------------------------------------------------------------------- auth

\* (Faulty variant: any logged-in user passes for the author.)
IsAuthorAnyone(news, user) == TRUE

\* "if news.user_id != g.user.id: abort(403)" of edit_news and delete_news.
IsAuthor(news, user) == news.user_id = user

\* login (POST) with a right or a wrong password.
Login(p, u, right) ==
    /\ pc[p] = "done"
    /\ nreq < MaxRequests
    /\ nreq' = nreq + 1
    /\ g_user(p) = NoUser
    /\ session' = IF right THEN [session EXCEPT ![p] = u] ELSE session
    /\ UNCHANGED <<posts, nextId, store, queue, queue_url, pc, req, log, uploaded,
                   deleteIssued, allOk, overlap, status, ref, out>>

Logout(p) ==
    /\ pc[p] = "done"
    /\ nreq < MaxRequests
    /\ nreq' = nreq + 1
    /\ session' = [session EXCEPT ![p] = NoUser]
    /\ UNCHANGED <<posts, nextId, store, queue, queue_url, pc, req, log, uploaded,
                   deleteIssued, allOk, overlap, status, ref, out>>

\* ------------------------------------------------------------ create_news

\* "if not image_url: flash(...); return redirect(...)" after the upload, in
\* create_news and edit_news: the request ends on a failed upload ("raise": the
\* exception left upload_image_to_storage), else it goes on to step next.
\* (Faulty variant: a failed upload that returned None does not end the request.)
AfterUploadKeepsGoing(up, next) ==
    IF up.raised THEN "error500" ELSE next

AfterUpload(up, next) ==
    IF up.raised THEN "error500"
    ELSE IF ~Truthy(up.ret) THEN "upload_failed"
    ELSE next

\* create_news up to the upload: the login check, the form, its validation.
CreateBegin(p, method, title, content, image) ==
    /\ pc[p] = "done"
    /\ nreq < MaxRequests
    /\ nreq' = nreq + 1
    /\ log' = [log EXCEPT ![p] = <<>>]
    /\ LET r0 == [NoReq EXCEPT !.kind = "create"]
           r1 == [r0 EXCEPT !.news = [title |-> title, content |-> content,
                                      user_id |-> g_user(p), image_url |-> None],
                            !.image = image]
       IN  IF g_user(p) = NoUser
           THEN /\ req' = [req EXCEPT ![p] = [r0 EXCEPT !.result = "login"]]
                /\ pc' = pc
           ELSE IF method = "GET"
           THEN /\ req' = [req EXCEPT ![p] = [r0 EXCEPT !.result = "page"]]
                /\ pc' = pc
           ELSE IF title = "" \/ content = ""
           THEN /\ req' = [req EXCEPT ![p] = [r0 EXCEPT !.result = "invalid"]]
                /\ pc' = pc
           ELSE /\ req' = [req EXCEPT ![p] = r1]
                /\ pc' = [pc EXCEPT ![p] = IF Truthy(image) THEN "create_upload"
                                            ELSE "create_commit"]
    /\ UNCHANGED <<posts, nextId, store, queue, queue_url, session, uploaded,
                   deleteIssued, allOk, overlap, status, ref, out>>

\* image_url = upload_image_to_storage(image), and the return on its failure.
CreateUpload(p, outcome) ==
    /\ pc[p] = "create_upload"
    /\ LET up == upload_image_to_storage(req[p].image, Cardinality(uploaded) + 1,
                                         outcome)
       IN  /\ store' = IF up.put # None THEN store \cup {up.put} ELSE store
           /\ uploaded' = IF up.put # None THEN uploaded \cup {up.put} ELSE uploaded
           /\ log' = [log EXCEPT ![p] = Append(@, Ev("upload", up.ret, outcome))]
           /\ IF AfterUpload(up, "create_commit") = "create_commit"
              THEN /\ req' = [req EXCEPT ![p].news.image_url = up.ret,
                                         ![p].new_image_url = up.ret]
                   /\ pc' = [pc EXCEPT ![p] = "create_commit"]
              ELSE /\ req' = [req EXCEPT ![p] = Ended(p, AfterUpload(up, "create_commit"))]
                   /\ pc' = [pc EXCEPT ![p] = "done"]
    /\ allOk' = (allOk /\ outcome = "ok")
    /\ UNCHANGED <<posts, nextId, queue, queue_url, session, deleteIssued, overlap,
                   nreq, status, ref, out>>

\* db.session.add(new_news); db.session.commit()
CreateCommit(p) ==
    /\ pc[p] = "create_commit"
    /\ posts' = posts @@ (nextId :> req[p].news)
    /\ nextId' = nextId + 1
    /\ log' = [log EXCEPT ![p] = Append(@, Ev("commit", req[p].news.image_url, "ok"))]
    /\ req' = [req EXCEPT ![p] = [Ended(p, "ok") EXCEPT !.news_id = nextId]]
    /\ pc' = [pc EXCEPT ![p] = "done"]
    /\ UNCHANGED <<store, queue, queue_url, session, uploaded, deleteIssued, allOk,
                   overlap, nreq, status, ref, out>>

\* -------------------------------------------------------------- edit_news

\* edit_news up to the upload: the login check, the load of the row, the
\* authorship check, the form written to the loaded object, its validation.
EditBegin(p, id, method, title, content, image) ==
    /\ pc[p] = "done"
    /\ nreq < MaxRequests
    /\ nreq' = nreq + 1
    /\ log' = [log EXCEPT ![p] = <<>>]
    /\ LET r0 == [NoReq EXCEPT !.kind = "edit", !.news_id = id]
       IN  IF g_user(p) = NoUser
           THEN /\ req' = [req EXCEPT ![p] = [r0 EXCEPT !.result = "login"]]
                /\ pc' = pc
                /\ overlap' = overlap
           ELSE IF id \notin DOMAIN posts
           THEN /\ req' = [req EXCEPT ![p] = [r0 EXCEPT !.result = "404"]]
                /\ pc' = pc
                /\ overlap' = overlap
           ELSE IF ~IsAuthor(posts[id], g_user(p))
           THEN /\ req' = [req EXCEPT ![p] = [r0 EXCEPT !.result = "forbidden"]]
                /\ pc' = pc
                /\ overlap' = overlap
           ELSE IF method = "GET"
           THEN /\ req' = [req EXCEPT ![p] = [r0 EXCEPT !.result = "page"]]
                /\ pc' = pc
                /\ overlap' = overlap
           ELSE IF title = "" \/ content = ""
           THEN /\ req' = [req EXCEPT ![p] = [r0 EXCEPT !.result = "invalid"]]
                /\ pc' = pc
                /\ overlap' = overlap
           ELSE /\ req' = [req EXCEPT ![p] =
                             [r0 EXCEPT !.orig = posts[id],
                                        !.news = [posts[id] EXCEPT !.title = title,
                                                                   !.content = content],
                                        !.image = image,
                                        !.old_image_url =
                                            IF Truthy(image) THEN posts[id].image_url
                                            ELSE None]]
                /\ pc' = [pc EXCEPT ![p] = IF Truthy(image) THEN "edit_upload"
                                            ELSE "edit_commit"]
                /\ overlap' = (overlap \/ Busy(p, id))
    /\ UNCHANGED <<posts, nextId, store, queue, queue_url, session, uploaded,
                   deleteIssued, allOk, status, ref, out>>

\* new_image_url = upload_image_to_storage(image); on success the loaded object
\* takes the new reference, on failure the request returns without a commit.
EditUpload(p, outcome) ==
    /\ pc[p] = "edit_upload"
    /\ LET up == upload_image_to_storage(req[p].image, Cardinality(uploaded) + 1,
                                         outcome)
       IN  /\ store' = IF up.put # None THEN store \cup {up.put} ELSE store
           /\ uploaded' = IF up.put # None THEN uploaded \cup {up.put} ELSE uploaded
           /\ log' = [log EXCEPT ![p] = Append(@, Ev("upload", up.ret, outcome))]
           /\ IF AfterUpload(up, "edit_send") = "edit_send"
              THEN /\ req' = [req EXCEPT ![p].news.image_url = up.ret,
                                         ![p].new_image_url = up.ret]
                   /\ pc' = [pc EXCEPT ![p] = "edit_send"]
              ELSE /\ req' = [req EXCEPT ![p] = Ended(p, AfterUpload(up, "edit_send"))]
                   /\ pc' = [pc EXCEPT ![p] = "done"]
    /\ allOk' = (allOk /\ outcome = "ok")
    /\ UNCHANGED <<posts, nextId, queue, queue_url, session, deleteIssued, overlap,
                   nreq, status, ref, out>>

\* (Faulty variant of EditSend: a failure of send_delete_message is not
\* swallowed and ends the request in the error handler.)
EditSendBlocks(p, outcome) ==
    /\ pc[p] = "edit_send"
    /\ LET sdm == send_delete_message(req[p].old_image_url, queue_url, outcome)
       IN  /\ queue' = IF sdm.sent THEN Append(queue, sdm.call) ELSE queue
           /\ deleteIssued' = IF sdm.call # None THEN deleteIssued \cup {sdm.call}
                              ELSE deleteIssued
           /\ log' = [log EXCEPT ![p] =
                        (IF sdm.call # None
                         THEN Append(@, Ev("sqs_send", sdm.call, outcome))
                         ELSE @) \o <<Ev("sdm", req[p].old_image_url, sdm.ret)>>]
           /\ allOk' = (allOk /\ (sdm.call = None \/ outcome = "ok"))
           /\ IF sdm.ret = "True"
              THEN /\ pc' = [pc EXCEPT ![p] = "edit_commit"]
                   /\ req' = req
              ELSE /\ pc' = [pc EXCEPT ![p] = "done"]
                   /\ req' = [req EXCEPT ![p] = Ended(p, "error500")]
    /\ UNCHANGED <<posts, nextId, store, queue_url, session, uploaded, overlap,
                   nreq, status, ref, out>>

\* (Faulty variant of EditSend: the old image is never scheduled for deletion.)
EditSendForgotten(p, outcome) ==
    /\ pc[p] = "edit_send"
    /\ pc' = [pc EXCEPT ![p] = "edit_commit"]
    /\ UNCHANGED <<posts, nextId, store, queue, queue_url, session, req, log,
                   uploaded, deleteIssued, allOk, overlap, nreq, status, ref, out>>

\* send_delete_message(old_image_url), its result ignored.
EditSend(p, outcome) ==
    /\ pc[p] = "edit_send"
    /\ LET sdm == send_delete_message(req[p].old_image_url, queue_url, outcome)
       IN  /\ queue' = IF sdm.sent THEN Append(queue, sdm.call) ELSE queue
           /\ deleteIssued' = IF sdm.call # None THEN deleteIssued \cup {sdm.call}
                              ELSE deleteIssued
           /\ log' = [log EXCEPT ![p] =
                        (IF sdm.call # None
                         THEN Append(@, Ev("sqs_send", sdm.call, outcome))
                         ELSE @) \o <<Ev("sdm", req[p].old_image_url, sdm.ret)>>]
           /\ allOk' = (allOk /\ (sdm.call = None \/ outcome = "ok"))
    /\ pc' = [pc EXCEPT ![p] = "edit_commit"]
    /\ UNCHANGED <<posts, nextId, store, queue_url, session, req, uploaded, overlap,
                   nreq, status, ref, out>>

\* The row an edit's UPDATE leaves: the columns whose value the request changed
\* on the loaded object (orig: as loaded, news: as the request left it).
\* (Faulty variant: the new image reference is not written.)
CommittedRowKeepsImage(row, news, orig) ==
    [row EXCEPT !.title = IF news.title # orig.title THEN news.title ELSE @,
                !.content = IF news.content # orig.content THEN news.content ELSE @]

CommittedRow(row, news, orig) ==
    [row EXCEPT !.title = IF news.title # orig.title THEN news.title ELSE @,
                !.content = IF news.content # orig.content THEN news.content ELSE @,
                !.image_url = IF news.image_url # orig.image_url THEN news.image_url
                              ELSE @]

\* db.session.commit(): the UPDATE of the columns the request changed.  A row
\* that is gone makes the UPDATE match nothing, which the ORM raises as
\* StaleDataError; with no column changed no UPDATE is sent.
EditCommit(p) ==
    /\ pc[p] = "edit_commit"
    /\ LET id == req[p].news_id
           dirty == req[p].news # req[p].orig
           written(row) == CommittedRow(row, req[p].news, req[p].orig)
       IN  IF dirty /\ id \notin DOMAIN posts
           THEN /\ posts' = posts
                /\ log' = [log EXCEPT ![p] = Append(@, Ev("commit", None, "stale"))]
                /\ req' = [req EXCEPT ![p] = Ended(p, "error500")]
           ELSE /\ posts' = IF dirty THEN [posts EXCEPT ![id] = written(@)] ELSE posts
                /\ log' = [log EXCEPT ![p] =
                             Append(@, Ev("commit", req[p].news.image_url, "ok"))]
                /\ req' = [req EXCEPT ![p] = Ended(p, "ok")]
    /\ pc' = [pc EXCEPT ![p] = "done"]
    /\ UNCHANGED <<nextId, store, queue, queue_url, session, uploaded, deleteIssued,
                   allOk, overlap, nreq, status, ref, out>>

\* ------------------------------------------------------------ delete_news

\* delete_news up to the DELETE: the login check, the load of the row, the
\* authorship check, image_url = news.image_url.
DeleteBegin(p, id) ==
    /\ pc[p] = "done"
    /\ nreq < MaxRequests
    /\ nreq' = nreq + 1
    /\ log' = [log EXCEPT ![p] = <<>>]
    /\ LET r0 == [NoReq EXCEPT !.kind = "delete", !.news_id = id]
       IN  IF g_user(p) = NoUser
           THEN /\ req' = [req EXCEPT ![p] = [r0 EXCEPT !.result = "login"]]
                /\ pc' = pc
                /\ overlap' = overlap
           ELSE IF id \notin DOMAIN posts
           THEN /\ req' = [req EXCEPT ![p] = [r0 EXCEPT !.result = "404"]]
                /\ pc' = pc
                /\ overlap' = overlap
           ELSE IF ~IsAuthor(posts[id], g_user(p))
           THEN /\ req' = [req EXCEPT ![p] = [r0 EXCEPT !.result = "forbidden"]]
                /\ pc' = pc
                /\ overlap' = overlap
           ELSE /\ req' = [req EXCEPT ![p] =
                             [r0 EXCEPT !.orig = posts[id], !.news = posts[id],
                                        !.image_url = posts[id].image_url]]
                /\ pc' = [pc EXCEPT ![p] = "delete_commit"]
                /\ overlap' = (overlap \/ Busy(p, id))
    /\ UNCHANGED <<posts, nextId, store, queue, queue_url, session, uploaded,
                   deleteIssued, allOk, status, ref, out>>

\* The table after db.session.delete(news) and the commit.
\* (Faulty variant: the row is still there when the blob is deleted.)
RowsAfterDeleteNotCommitted(id) == posts

RowsAfterDelete(id) == [i \in DOMAIN posts \ {id} |-> posts[i]]

\* db.session.delete(news); db.session.commit().  A row already gone makes the
\* DELETE match nothing, which the ORM only warns about.
DeleteCommit(p) ==
    /\ pc[p] = "delete_commit"
    /\ posts' = RowsAfterDelete(req[p].news_id)
    /\ log' = [log EXCEPT ![p] = Append(@, Ev("commit", None, "ok"))]
    /\ IF Truthy(req[p].image_url)
       THEN /\ pc' = [pc EXCEPT ![p] = "delete_direct"]
            /\ req' = req
       ELSE /\ pc' = [pc EXCEPT ![p] = "done"]
            /\ req' = [req EXCEPT ![p] = Ended(p, "ok")]
    /\ UNCHANGED <<nextId, store, queue, queue_url, session, uploaded, deleteIssued,
                   allOk, overlap, nreq, status, ref, out>>

\* "if not delete_image_from_storage(image_url): send_delete_message(...)":
\* where delete_news goes on what the direct delete returned.
\* (Faulty variant: the queue fallback also follows a successful direct delete.)
AfterDirectAlwaysSends(ret) ==
    IF ret = "raise" THEN "error500" ELSE "delete_send"

AfterDirect(ret) ==
    IF ret = "raise" THEN "error500"
    ELSE IF ret = "True" THEN "ok"
    ELSE "delete_send"

\* if not delete_image_from_storage(image_url): ...
DeleteDirect(p, outcome) ==
    /\ pc[p] = "delete_direct"
    /\ LET dis == delete_image_from_storage(req[p].image_url, outcome)
       IN  /\ store' = IF dis.deleted THEN store \ {dis.call} ELSE store
           /\ deleteIssued' = IF dis.call # None THEN deleteIssued \cup {dis.call}
                              ELSE deleteIssued
           /\ log' = [log EXCEPT ![p] =
                        (IF dis.call # None
                         THEN Append(@, Ev("s3_delete", dis.call, outcome))
                         ELSE @) \o <<Ev("dis", req[p].image_url, dis.ret)>>]
           /\ allOk' = (allOk /\ (dis.call = None \/ outcome = "ok"))
           /\ IF AfterDirect(dis.ret) = "delete_send"
              THEN /\ req' = req
                   /\ pc' = [pc EXCEPT ![p] = "delete_send"]
              ELSE /\ req' = [req EXCEPT ![p] = Ended(p, AfterDirect(dis.ret))]
                   /\ pc' = [pc EXCEPT ![p] = "done"]
    /\ UNCHANGED <<posts, nextId, queue, queue_url, session, uploaded, overlap,
                   nreq, status, ref, out>>

\* ... send_delete_message(image_url), then the success response.
DeleteSend(p, outcome) ==
    /\ pc[p] = "delete_send"
    /\ LET sdm == send_delete_message(req[p].image_url, queue_url, outcome)
       IN  /\ queue' = IF sdm.sent THEN Append(queue, sdm.call) ELSE queue
           /\ deleteIssued' = IF sdm.call # None THEN deleteIssued \cup {sdm.call}
                              ELSE deleteIssued
           /\ log' = [log EXCEPT ![p] =
                        (IF sdm.call # None
                         THEN Append(@, Ev("sqs_send", sdm.call, outcome))
                         ELSE @) \o <<Ev("sdm", req[p].image_url, sdm.ret)>>]
           /\ allOk' = (allOk /\ (sdm.call = None \/ outcome = "ok"))
    /\ req' = [req EXCEPT ![p] = Ended(p, "ok")]
    /\ pc' = [pc EXCEPT ![p] = "done"]
    /\ UNCHANGED <<posts, nextId, store, queue_url, session, uploaded, overlap,
                   nreq, status, ref, out>>

\* --------------------------------------------------- the queue's consumer

\* How the consumer's delete ends; "noenv": a required environment variable
\* is missing.
ConsumerOutcomes == {"ok", "ClientError", "Exception", "noenv"}

\* (Faulty variant: a key that is not in the store counts as a failed delete.)
consumer_delete_missing_fails(filename, outcome) ==
    IF ~Truthy(filename) THEN FALSE
    ELSE outcome = "ok" /\ filename \in store

\* delete_image_from_storage of the cloud function: TRUE iff the blob was
\* deleted (a key that is not there deletes without error).
consumer_delete(filename, outcome) ==
    IF ~Truthy(filename) THEN FALSE
    ELSE outcome = "ok"

\* handler, on an event in the queue trigger's format: the body of the first
\* message that has one.
handler_filename(messages) ==
    IF messages = <<>> THEN None ELSE Head(messages)

handler_status(messages, outcome) ==
    IF ~Truthy(handler_filename(messages)) THEN 400
    ELSE IF consumer_delete(handler_filename(messages), outcome) THEN 200
    ELSE 500

\* The trigger hands the k oldest messages to handler.  The queue delivers at
\* least once: the messages leave the queue, or stay to be delivered again.
Consume(k, outcome, redeliver) ==
    /\ k \in 1..MaxBatch
    /\ k <= Len(queue)
    /\ LET messages == SubSeq(queue, 1, k)
           filename == handler_filename(messages)
       IN  /\ status' = handler_status(messages, outcome)
           /\ store' = IF Truthy(filename) /\ consumer_delete(filename, outcome)
                       THEN store \ {filename} ELSE store
    /\ queue' = IF redeliver THEN queue ELSE SubSeq(queue, k + 1, Len(queue))
    /\ UNCHANGED <<posts, nextId, queue_url, session, pc, req, log, uploaded,
                   deleteIssued, allOk, overlap, nreq, ref, out>>

\* ---------------------------------------------------------- specification

Methods == {"GET", "POST"}

Next ==
    \/ \E p \in Procs, u \in Users, right \in BOOLEAN : Login(p, u, right)
    \/ \E p \in Procs : Logout(p)
    \/ \E p \in Procs, m \in Methods, t \in Titles, c \in Contents, f \in Files :
          CreateBegin(p, m, t, c, f)
    \/ \E p \in Procs, o \in Outcomes : CreateUpload(p, o)
    \/ \E p \in Procs : CreateCommit(p)
    \/ \E p \in Procs, id \in 1..(nextId - 1), m \in Methods, t \in Titles,
          c \in Contents, f \in Files : EditBegin(p, id, m, t, c, f)
    \/ \E p \in Procs, o \in Outcomes : EditUpload(p, o)
    \/ \E p \in Procs, o \in {"ok", "Exception"} : EditSend(p, o)
    \/ \E p \in Procs : EditCommit(p)
    \/ \E p \in Procs, id \in 1..(nextId - 1) : DeleteBegin(p, id)
    \/ \E p \in Procs : DeleteCommit(p)
    \/ \E p \in Procs, o \in Outcomes : DeleteDirect(p, o)
    \/ \E p \in Procs, o \in {"ok", "Exception"} : DeleteSend(p, o)
    \/ \E k \in 1..MaxBatch, o \in ConsumerOutcomes, r \in BOOLEAN : Consume(k, o, r)

Spec == Init /\ [][Next]_vars

\* ------------------------------------------ the helpers called on their own

\* The helpers of the application applied to any stored reference of at most
\* MaxLen characters, under either configuration of the queue.
InitKey ==
    /\ posts = (1 :> [title |-> "t0", content |-> "c0", user_id |-> "u1",
                      image_url |-> None])
    /\ store = {}
    /\ nextId = 2
    /\ queue = <<>>
    /\ queue_url \in {"", "q"}
    /\ session = [p \in Procs |-> NoUser]
    /\ pc = [p \in Procs |-> "done"]
    /\ req = [p \in Procs |-> NoReq]
    /\ log = [p \in Procs |-> <<>>]
    /\ uploaded = {}
    /\ deleteIssued = {}
    /\ allOk = TRUE
    /\ overlap = FALSE
    /\ nreq = 0
    /\ status = 0
    /\ ref \in Refs
    /\ out = NoOut

ApplyExtract ==
    /\ out' = [NoOut EXCEPT !.fn = "extract",
                            !.key = extract_filename_from_url(ref)]
    /\ UNCHANGED <<appVars, ref>>

ApplyDelete(outcome) ==
    /\ LET dis == delete_image_from_storage(ref, outcome)
       IN  out' = [NoOut EXCEPT !.fn = "delete", !.ret = dis.ret, !.call = dis.call]
    /\ UNCHANGED <<appVars, ref>>

ApplySend(outcome) ==
    /\ LET sdm == send_delete_message(ref, queue_url, outcome)
       IN  out' = [NoOut EXCEPT !.fn = "send", !.ret = sdm.ret, !.call = sdm.call]
    /\ UNCHANGED <<appVars, ref>>

NextKey ==
    \/ ApplyExtract
    \/ \E o \in Outcomes : ApplyDelete(o)
    \/ \E o \in {"ok", "Exception"} : ApplySend(o)

SpecKey == InitKey /\ [][NextKey]_vars

\* ------------------------------------------------------------ properties

\* Positions in the log of client p's request of the calls named op.
Events(p, op) == {i \in 1..Len(log[p]) : log[p][i].op = op}

\* A live Post refers to the blob under key k.
Referenced(k) ==
    \E id \in DOMAIN posts :
        /\ Truthy(posts[id].image_url)
        /\ extract_filename_from_url(posts[id].image_url) = k

Pending == {queue[i] : i \in 1..Len(queue)}

Quiet == \A p \in Procs : pc[p] = "done"

\* C1: in the replace path of edit_news the delete request for the old image is
\* issued only after the Post carrying the new reference is committed: in no
\* state does a committed Post refer to an image for which a delete has been
\* issued.
C1_NoDeleteIssuedForAttachedImage ==
    \A id \in DOMAIN posts :
        Truthy(posts[id].image_url) =>
            extract_filename_from_url(posts[id].image_url) \notin deleteIssued

\* C2: a delete_news request on a Post with an image whose direct delete
\* failed, by a ClientError or by any other exception, ends with the Post
\* removed, without the failure leaving the handler, and with exactly one
\* message put on the Delete Queue.
C2_DeleteFallsBackOnAnyFailure ==
    \A p \in Procs :
        ( /\ pc[p] = "done"
          /\ req[p].kind = "delete"
          /\ Truthy(req[p].image_url)
          /\ \E i \in Events(p, "s3_delete") : log[p][i].ret # "ok" )
        => /\ req[p].news_id \notin DOMAIN posts
           /\ req[p].result = "ok"
           /\ Cardinality({i \in Events(p, "sqs_send") : log[p][i].ret = "ok"}) = 1

ReplaceDone(p) ==
    /\ req[p].news_id \in DOMAIN posts'
    /\ posts'[req[p].news_id].image_url = req[p].new_image_url
    /\ Cardinality(Events(p, "sdm")) = 1
    /\ \A i \in Events(p, "sdm") : log[p][i].arg = req[p].old_image_url
    /\ Events(p, "dis") = {}
    /\ Events(p, "s3_delete") = {}

\* C4 as stated: every edit_news request with a new image whose upload
\* succeeded leaves the Post committed with the reference the upload returned,
\* having issued the delete of the prior image exactly once.
C4_ReplaceCommitsUploadedImage ==
    [][\A p \in Procs :
          ( /\ pc[p] = "edit_commit"
            /\ pc'[p] = "done"
            /\ Truthy(req[p].new_image_url) )
          => ReplaceDone(p)]_vars

\* C4 amended: the same of every such request whose commit succeeded (it
\* returns the success response).
C4_ReplaceCommitsUploadedImageWhenCommitted ==
    [][\A p \in Procs :
          ( /\ pc[p] = "edit_commit"
            /\ pc'[p] = "done"
            /\ Truthy(req[p].new_image_url)
            /\ req'[p].result = "ok" )
          => ReplaceDone(p)]_vars

C4_Witness ==
    \E p \in Procs :
        /\ pc[p] = "done"
        /\ req[p].kind = "edit"
        /\ req[p].result = "ok"
        /\ Truthy(req[p].new_image_url)
        /\ req[p].old_image_url = Url0
        /\ req[p].news_id \in DOMAIN posts
        /\ posts[req[p].news_id].image_url = req[p].new_image_url
        /\ \E i \in Events(p, "sqs_send") : log[p][i].arg = Key0

\* C5: a replaced image is neither deleted while a live Post refers to it nor
\* left for good: no blob a live Post refers to is missing from the Object
\* Store, and once an edit that replaced an image has completed (the queue
\* configured, no call of the application failed), the old blob is gone from
\* the store, or awaits its delete in the queue, or is referred to.
C5_NeitherDanglingNorOrphaned ==
    /\ \A id \in DOMAIN posts :
          Truthy(posts[id].image_url) =>
              extract_filename_from_url(posts[id].image_url) \in store
    /\ \A p \in Procs :
          ( /\ pc[p] = "done"
            /\ req[p].kind = "edit"
            /\ req[p].result = "ok"
            /\ allOk
            /\ queue_url # ""
            /\ Truthy(req[p].old_image_url) )
          => LET old == extract_filename_from_url(req[p].old_image_url)
             IN  old \in store => (old \in Pending \/ Referenced(old))

\* C6: an upload that fails in edit_news or create_news, whether by a
\* ClientError or by any other exception, ends the request there, with the
\* Post Store, the Object Store and the Delete Queue as they were and with
\* nothing done by the request before: no column of the Post changed, no Post
\* added, no delete and no message issued.
C6_FailedUploadPersistsNothing ==
    [][\A p \in Procs :
          ( /\ pc[p] \in {"edit_upload", "create_upload"}
            /\ Len(log'[p]) = Len(log[p]) + 1
            /\ log'[p][Len(log'[p])].op = "upload"
            /\ log'[p][Len(log'[p])].ret # "ok" )
          => /\ pc'[p] = "done"
             /\ req'[p].result \in {"upload_failed", "error500"}
             /\ log[p] = <<>>
             /\ posts' = posts
             /\ nextId' = nextId
             /\ store' = store
             /\ queue' = queue
             /\ deleteIssued' = deleteIssued]_vars

C6_Witness ==
    \E p \in Procs :
        /\ pc[p] = "done"
        /\ req[p].kind = "edit"
        /\ req[p].result = "upload_failed"
        /\ Len(log[p]) = 1
        /\ log[p][1].op = "upload"
        /\ posts[1].title = "t0"
        /\ posts[1].image_url = Url0
        /\ queue = <<>>
        /\ deleteIssued = {}

\* Every blob an upload created is referred to by a live Post or has had a
\* direct delete or a delete request issued for it.
NoLeak == \A k \in uploaded : Referenced(k) \/ k \in deleteIssued

\* C7 as stated: under any interleaving of requests, with the queue configured
\* and every external call succeeding, no storage is leaked once all requests
\* have completed.
C7_NoLeakUnderAnyInterleaving ==
    (Quiet /\ allOk /\ queue_url # "") => NoLeak

\* C7 amended: the same, when no two requests on the same Post were in
\* progress together.
C7_NoLeakWithoutOverlap ==
    (Quiet /\ allOk /\ queue_url # "" /\ ~overlap) => NoLeak

C7_Witness ==
    /\ Quiet
    /\ allOk
    /\ queue_url # ""
    /\ ~overlap
    /\ \E k \in uploaded : k \in deleteIssued /\ ~Referenced(k)
    /\ \E k \in uploaded : Referenced(k)

\* C8: in delete_news the Post row is removed and committed before the direct
\* delete and before the enqueue: at each call of delete_image_from_storage or
\* send_delete_message by a delete request, the Post of the request is not in
\* the Post Store and no Post carries its image reference.
C8_RowGoneBeforeBlobDelete ==
    [][\A p \in Procs :
          ( /\ req[p].kind = "delete"
            /\ Len(log'[p]) > Len(log[p])
            /\ log'[p][Len(log'[p])].op \in {"dis", "sdm"} )
          => /\ req[p].news_id \notin DOMAIN posts
             /\ \A id \in DOMAIN posts : posts[id].image_url # req[p].image_url
             /\ Len(log[p]) > 0
             /\ log[p][1] = Ev("commit", None, "ok")]_vars

C8_Witness ==
    \E p \in Procs :
        /\ pc[p] = "done"
        /\ req[p].kind = "delete"
        /\ req[p].image_url = Url0
        /\ req[p].news_id \notin DOMAIN posts
        /\ log[p][1].op = "commit"
        /\ Events(p, "s3_delete") # {}
        /\ Key0 \notin store

\* A reference with a path separator, and the segment after its last one.
WellFormed(r) == r # None /\ \E i \in 1..Len(r) : r[i] = "/"

LastSegment(r) ==
    LET last == CHOOSE i \in 1..Len(r) :
                    r[i] = "/" /\ \A j \in (i + 1)..Len(r) : r[j] # "/"
    IN  SubSeq(r, last + 1, Len(r))

\* C9: extract_filename_from_url yields the last "/"-separated segment of a
\* well-formed reference and None for a malformed one: None, the empty string,
\* a string with no path separator.
C9_MalformedYieldsNone ==
    out.fn = "extract" =>
        IF WellFormed(ref) THEN out.key = LastSegment(ref)
        ELSE out.key = None

\* C10: when key extraction fails for a reference (None, empty, or one whose
\* last path segment is empty), delete_image_from_storage and
\* send_delete_message return False without raising and make no call to the
\* Object Store and none to the queue.
C10_NoCallWhenExtractionFails ==
    ( /\ out.fn \in {"delete", "send"}
      /\ ~Truthy(extract_filename_from_url(ref)) )
    => /\ out.ret = "False"
       /\ out.call = None

C10_Witness ==
    /\ out.fn = "delete"
    /\ ref = <<"a", "/">>
    /\ out.ret = "False"
    /\ out.call = None

\* The call of send_delete_message that client p's step makes, when it makes
\* one that fails: the newest entry of its log is that call, returning False.
EnqueueFails(p) ==
    /\ Len(log'[p]) > Len(log[p])
    /\ log'[p][Len(log'[p])].op = "sdm"
    /\ log'[p][Len(log'[p])].ret = "False"

\* The request of client p has called send_delete_message and it failed.
EnqueueFailed(p) == \E i \in Events(p, "sdm") : log[p][i].ret = "False"

\* C11: a failure of send_delete_message (queue URL not configured, the send
\* raising, nothing to extract) is swallowed and does not block the mutation.
\* In edit_news the request goes on to its commit with the new title, content
\* and image reference untouched, and that commit writes them to the Post
\* (it fails only if the row is gone by then) and returns the success
\* response; in delete_news the Post stays removed and the request returns the
\* success response.
C11_EnqueueFailureNeverBlocks ==
    [][\A p \in Procs :
          /\ (pc[p] = "edit_send" /\ EnqueueFails(p))
                => /\ pc'[p] = "edit_commit"
                   /\ req'[p] = req[p]
                   /\ req[p].news.image_url = req[p].new_image_url
                   /\ posts' = posts
          /\ (pc[p] = "edit_commit" /\ EnqueueFailed(p) /\ pc'[p] # pc[p]
                 /\ req[p].news_id \in DOMAIN posts)
                => /\ pc'[p] = "done"
                   /\ req'[p].result = "ok"
                   /\ posts'[req[p].news_id].title = req[p].news.title
                   /\ posts'[req[p].news_id].content = req[p].news.content
                   /\ posts'[req[p].news_id].image_url = req[p].new_image_url
          /\ (pc[p] = "delete_send" /\ EnqueueFails(p))
                => /\ pc'[p] = "done"
                   /\ req'[p].result = "ok"
                   /\ req[p].news_id \notin DOMAIN posts'
                   /\ posts' = posts]_vars

C11_Witness ==
    \E p \in Procs :
        /\ pc[p] = "done"
        /\ req[p].kind = "edit"
        /\ req[p].result = "ok"
        /\ EnqueueFailed(p)
        /\ \E i \in Events(p, "sqs_send") : log[p][i].ret = "Exception"
        /\ req[p].news_id \in DOMAIN posts
        /\ posts[req[p].news_id].image_url = req[p].new_image_url
        /\ posts[req[p].news_id].title = "t1"
        /\ Truthy(req[p].new_image_url)

\* C12: every message delivered to handler is consumed: when the store's
\* delete succeeds, the blob named by the body of each message of the event,
\* also of an event that carries several, is gone from the Object Store after
\* the invocation.
C12_EveryDeliveredMessageDeleted ==
    [][\A k \in 1..MaxBatch, r \in BOOLEAN :
          Consume(k, "ok", r) => \A i \in 1..k : queue[i] \notin store']_vars

\* C13: the consumer is idempotent.  An invocation whose delete succeeds
\* leaves the blob of its request out of the Object Store and answers 200,
\* also when the key was already gone, and then the store is as it was: so
\* handling a request twice leaves the store as handling it once does.  An
\* invocation removes at most one blob, that of its request, whatever the
\* outcome.
C13_ConsumerIdempotent ==
    [][\A k \in 1..MaxBatch, o \in ConsumerOutcomes, r \in BOOLEAN :
          Consume(k, o, r) =>
             /\ Cardinality(store \ store') <= 1
             /\ store \ store' \subseteq {queue[1]}
             /\ store' \subseteq store
             /\ o = "ok" => /\ status' = 200
                            /\ queue[1] \notin store'
                            /\ store' = store \ {queue[1]}
             /\ (o = "ok" /\ queue[1] \notin store) => store' = store]_vars

\* A request handled with success and delivered again: its key is gone and the
\* message is still at the head of the queue.
C13_Witness ==
    /\ status = 200
    /\ queue # <<>>
    /\ queue[1] \notin store
    /\ queue[1] \in deleteIssued
    /\ queue[1] \in uploaded \cup {Key0}

\* Client p makes a call to the Object Store's delete or to the queue in this
\* step.
IssuedBy(p) ==
    \E i \in (Len(log[p]) + 1)..Len(log'[p]) :
        log'[p][i].op \in {"s3_delete", "sqs_send"}

\* Client p, in the middle of an edit or delete of Post id, is its author.
AuthorAtWork(p, id) ==
    /\ pc[p] # "done"
    /\ pc'[p] # pc[p]
    /\ req[p].kind \in {"edit", "delete"}
    /\ req[p].news_id = id
    /\ g_user(p) # NoUser
    /\ g_user(p) = req[p].orig.user_id

\* The step leaves the Post Store, the Object Store and the Delete Queue alone.
NothingTouched ==
    /\ posts' = posts
    /\ store' = store
    /\ queue' = queue
    /\ deleteIssued' = deleteIssued

\* C14: a Post is modified or removed, and a delete of its image or a queue
\* message for it is issued, only by a request whose session user is the
\* Post's author; an edit_news or delete_news request from an unauthenticated
\* session or from another user ends at once and leaves the Post Store, the
\* Object Store and the Delete Queue unchanged.
C14_OnlyAuthorChangesPost ==
    [][/\ \A id \in DOMAIN posts :
             (id \notin DOMAIN posts' \/ posts'[id] # posts[id]) =>
                \E p \in Procs : /\ AuthorAtWork(p, id)
                                 /\ g_user(p) = posts[id].user_id
       /\ \A p \in Procs :
             IssuedBy(p) => /\ AuthorAtWork(p, req[p].news_id)
                            /\ req[p].news_id \in DOMAIN posts =>
                                  g_user(p) = posts[req[p].news_id].user_id
       /\ (pc' # pc /\ (~(store \subseteq store') \/ Len(queue') > Len(queue)
                        \/ deleteIssued' # deleteIssued)) =>
             \E p \in Procs : IssuedBy(p)
       /\ \A p \in Procs, id \in 1..(nextId - 1) :
             (/\ \/ \E m \in Methods, t \in Titles, c \in Contents, f \in Files :
                       EditBegin(p, id, m, t, c, f)
                 \/ DeleteBegin(p, id)
              /\ \/ g_user(p) = NoUser
                 \/ id \in DOMAIN posts /\ posts[id].user_id # g_user(p)) =>
                /\ pc'[p] = "done"
                /\ req'[p].result \in {"login", "forbidden"}
                /\ NothingTouched]_vars

\* A logged-in user who is not the author has asked to edit or delete a Post:
\* the request was refused and nothing was issued.
C14_Witness ==
    \E p \in Procs :
        /\ pc[p] = "done"
        /\ req[p].kind \in {"edit", "delete"}
        /\ req[p].result = "forbidden"
        /\ g_user(p) \in Users
        /\ req[p].news_id \in DOMAIN posts
        /\ posts[req[p].news_id].user_id \in Users \ {g_user(p)}
        /\ log[p] = <<>>
        /\ deleteIssued = {}
        /\ queue = <<>>

====
